---- MODULE Spec2Model ----
(***************************************************************************)
(* The call-recording pipeline of ringcentral_callrecordings: three batch  *)
(* programs (main.py = fetch, transcribe_v2.py = transcribe,               *)
(* classify_calls.py = classify) that only meet in two BigQuery tables,    *)
(* the tracking table and call_classifications.  Each program is one OS   *)
(* process; several may run at once and any may be killed.                 *)
(***************************************************************************)
EXTENDS Integers, Sequences, FiniteSets, TLC

(* ------------------------------ bounds -------------------------------- *)
\* rows of the source table in the one-process-at-a-time specification
NumContacts == 2
\* program runs started over the whole behaviour
MaxRuns == 4

\* lines of a classifier response text
MaxLines == 3
\* words of one channel of a recognition output
MaxWords == 2
\* utterances of a recognition output
MaxUtts == 2
\* calls of authenticate on one authenticator
MaxAuths == 2
\* advances of the clock of the authenticator
MaxTicks == 3
\* invocations of parse_deepgram_response in a row
MaxParses == 2

\* contact ids; the source table holds each at most once
Contacts == 1..NumContacts
\* the source table of the specification with overlapping processes
OneContact == {1}
\* OS processes that can be alive at the same time
Procs == {"p1", "p2"}
Stages == {"fetch", "transcribe", "classify"}

(* --------------------------- column values ---------------------------- *)
\* SQL NULL of a STRING column / of an INTEGER column (mode="NULLABLE")
NULL == "NULL"
NULLINT == -1
\* a gs:// locator written by upload_to_gcs
GCS == "gs"
\* a non-blank transcript, the blank transcript, and an error message
TEXT == "text"
BLANK == ""
ERRMSG == "error"

GEMINI_MODEL == "gemini-2.0-flash-thinking-exp"
GEMINI_FALLBACK_MODEL == "gemini-2.0-flash"
\* batch caps passed to the three selections, and the transcribe loop's break
FETCH_LIMIT == 10000
TRANSCRIBE_LIMIT == 5
TRANSCRIBE_BREAK == 4
CLASSIFY_LIMIT == 10

VARIABLES
  source,           \* the source table: its contact ids (never written)
  tracking,         \* the tracking table: rows in insertion order
  classifications,  \* the call_classifications table: rows in insertion order
  run,              \* per process: the program it runs and where it is
  started,          \* number of program runs started so far
  dupSel,           \* history: <<stage, contactId>> held by two live runs of a stage at once
  answered404,      \* history: contact ids the recording source answered 404 for
  hadTranscribed,   \* history: positions of the tracking rows that once had transcribed = 1
  ev,               \* history: what the last step did
  gem,              \* one call of call_gemini, stepped attempt by attempt
  fmt,              \* one call of format_multichannel_conversation, step by step
  prs,              \* one call of parse_deepgram_response, step by step
  boot,             \* the start of one program, up to its selection
  auth              \* one CXoneAuthenticator, its clock and its calls

vars == <<source, tracking, classifications, run, started, dupSel, answered404,
          hadTranscribed, ev, gem, fmt, prs, boot, auth>>

(* ------------------------------ helpers ------------------------------- *)
Range(s) == {s[i] : i \in DOMAIN s}

Take(s, n) == IF Len(s) <= n THEN s ELSE SubSeq(s, 1, n)

\* the indices in S ordered by key (a function on S) ascending (ties by table position), as a
\* sequence of indices: the row order of "ORDER BY key ASC"
OrderBy(S, key) ==
  LET Before(j, i) == key[j] < key[i] \/ (key[j] = key[i] /\ j < i)
      Rank(i) == Cardinality({j \in S : Before(j, i)}) + 1
  IN  [k \in 1..Cardinality(S) |-> CHOOSE i \in S : Rank(i) = k]

RowsOf(table, c) == {i \in DOMAIN table : table[i].contactId = c}

\* a process that runs no program
Idle == [stage |-> "idle", pc |-> "idle", pending |-> <<>>, processed |-> 0,
         success_count |-> 0, failed_count |-> 0, written |-> 0,
         seen404 |-> {}, notFound0 |-> {}]

NoEvent == [kind |-> "none"]

(* ======================= main.py: the fetch stage ====================== *)
\* the source table: one row per contact id, startDate increasing with the id
StartDate(c) == c

\* SELECT src.contactId FROM source src LEFT JOIN tracking trk ON ...
\* WHERE trk.contactId IS NULL ORDER BY src.startDate DESC [LIMIT limit]
\* a selection that treats NOT_FOUND rows as absent
get_pending_contacts_ignoring_not_found(src, trk, limit) ==
  LET S == {c \in src : \A i \in RowsOf(trk, c) : trk[i].status = "NOT_FOUND"}
      Newest == [c \in S |-> 0 - StartDate(c)]
      ordered == OrderBy(S, Newest)
  IN  IF limit # 0 THEN Take(ordered, limit) ELSE ordered

get_pending_contacts(src, trk, limit) ==
  LET S == {c \in src : RowsOf(trk, c) = {}}
      Newest == [c \in S |-> 0 - StartDate(c)]
      ordered == OrderBy(S, Newest)
  IN  IF limit # 0 THEN Take(ordered, limit) ELSE ordered

\* what one pass of the loop body can meet: get_access_token raising, the
\* metadata request answering 404 / another HTTP status / timing out, metadata
\* without a playable file, a failing download, a failing upload, or success
FetchResponses ==
  {"auth_error", "http_404", "http_error", "timeout",
   "no_files", "download_error", "upload_error", "ok"}

\* the status of the row the loop body builds, by the branch that builds it
FetchStatus_not_found_as_failed(resp) ==
  IF resp = "no_files" THEN "NO_RECORDING"
  ELSE IF resp = "ok" THEN "SUCCESS"
  ELSE "FAILED"

FetchStatus(resp) ==
  IF resp = "no_files" THEN "NO_RECORDING"
  ELSE IF resp = "ok" THEN "SUCCESS"
  ELSE IF resp = "http_404" THEN "NOT_FOUND"
  ELSE "FAILED"

\* the row dict handed to save_to_bq; the streaming insert leaves the columns
\* the later stages own at NULL
FetchRow_uri_unless_not_found(c, status, now) ==
  [contactId |-> c,
   gcs_uri |-> IF status # "NOT_FOUND" THEN GCS ELSE NULL,
   fetch_datetime |-> now,
   status |-> status,
   transcribed |-> NULLINT, analysed |-> NULLINT,
   transcription |-> NULL, transcription_raw |-> NULL,
   gemini_analysed |-> NULLINT]

FetchRow(c, status, now) ==
  [contactId |-> c,
   gcs_uri |-> IF status = "SUCCESS" THEN GCS ELSE NULL,
   fetch_datetime |-> now,
   status |-> status,
   transcribed |-> NULLINT, analysed |-> NULLINT,
   transcription |-> NULL, transcription_raw |-> NULL,
   gemini_analysed |-> NULLINT]

\* datetime.now() as logical time: the ordinal of the row about to be stored,
\* so fetch_datetime grows with the order in which the rows were stored
Now(trk) == Len(trk) + 1

\* insert_rows_json appends the row; when it returns errors the row is not
\* stored and the error is only printed
save_to_bq(trk, row, ok) == IF ok THEN Append(trk, row) ELSE trk

(* ================= transcribe_v2.py: the transcribe stage ============== *)
\* SELECT contactId, gcs_uri FROM tracking WHERE gcs_uri IS NOT NULL
\* AND status = 'SUCCESS' AND (transcribed IS NULL OR transcribed = 0)
\* ORDER BY fetch_datetime ASC [LIMIT limit]
PendingTranscriptionRows(trk) ==
  {i \in DOMAIN trk :
     /\ trk[i].gcs_uri # NULL
     /\ trk[i].status = "SUCCESS"
     /\ trk[i].transcribed \in {NULLINT, 0}}

get_pending_transcriptions(trk, limit) ==
  LET FetchTime == [i \in DOMAIN trk |-> trk[i].fetch_datetime]
      ordered == OrderBy(PendingTranscriptionRows(trk), FetchTime)
      rows == [k \in DOMAIN ordered |->
                 [contactId |-> trk[ordered[k]].contactId,
                  payload |-> trk[ordered[k]].gcs_uri]]
  IN  IF limit # 0 THEN Take(rows, limit) ELSE rows

\* generate_signed_url raising, call_deepgram_api raising HTTPError, or a
\* received response: one whose parse gives a non-blank / a blank transcript,
\* or one of the wrong shape, on which the parse raises inside its try block
TranscribeResponses ==
  {"sign_error", "http_error", "ok_text", "ok_blank", "ok_malformed"}

TranscribeAdapterOk(resp) == resp \in {"ok_text", "ok_blank", "ok_malformed"}

\* the parse of a received response ran to its end without an exception
ParseOk(resp) == resp \in {"ok_text", "ok_blank"}

\* the dict parse_deepgram_response returns for a received response; the
\* except clause prints a warning and the result keeps its initial "" values
Parsed(resp) ==
  IF resp = "ok_text"
    THEN [transcription |-> TEXT, transcription_raw |-> TEXT]
    ELSE [transcription |-> BLANK, transcription_raw |-> BLANK]

\* UPDATE tracking SET ... WHERE contactId = @contact_id : every row with
\* that contact id is rewritten
\* an UPDATE whose failure branch writes the message but not the flags
update_bigquery_row_keeping_flags(trk, c, parsed, success) ==
  [i \in DOMAIN trk |->
     IF trk[i].contactId # c THEN trk[i]
     ELSE IF success
       THEN [trk[i] EXCEPT !.transcribed = 1, !.analysed = 1,
                           !.transcription = parsed.transcription,
                           !.transcription_raw = parsed.transcription_raw]
       ELSE [trk[i] EXCEPT !.transcription = ERRMSG]]

update_bigquery_row(trk, c, parsed, success) ==
  [i \in DOMAIN trk |->
     IF trk[i].contactId # c THEN trk[i]
     ELSE IF success
       THEN [trk[i] EXCEPT !.transcribed = 1, !.analysed = 1,
                           !.transcription = parsed.transcription,
                           !.transcription_raw = parsed.transcription_raw]
       ELSE [trk[i] EXCEPT !.transcribed = 0, !.analysed = 0,
                           !.transcription = ERRMSG]]

(* ================= classify_calls.py: the classify stage =============== *)
\* SELECT contactId, transcription FROM tracking WHERE transcribed = 1
\* AND transcription IS NOT NULL AND LENGTH(TRIM(transcription)) > 0
\* AND (gemini_analysed IS NULL OR gemini_analysed = 0)
\* ORDER BY fetch_datetime ASC [LIMIT limit]
\* a WHERE clause without "transcribed = 1"
PendingClassificationRows_any_transcribed(trk) ==
  {i \in DOMAIN trk :
     /\ trk[i].transcription \notin {NULL, BLANK}
     /\ trk[i].gemini_analysed \in {NULLINT, 0}}

PendingClassificationRows(trk) ==
  {i \in DOMAIN trk :
     /\ trk[i].transcribed = 1
     /\ trk[i].transcription # NULL
     /\ trk[i].transcription # BLANK
     /\ trk[i].gemini_analysed \in {NULLINT, 0}}

get_pending_classifications(trk, limit) ==
  LET FetchTime == [i \in DOMAIN trk |-> trk[i].fetch_datetime]
      ordered == OrderBy(PendingClassificationRows(trk), FetchTime)
      rows == [k \in DOMAIN ordered |->
                 [contactId |-> trk[ordered[k]].contactId,
                  payload |-> trk[ordered[k]].transcription]]
  IN  IF limit # 0 THEN Take(rows, limit) ELSE rows

(* --------------------------- call_gemini ------------------------------ *)
models_to_try == <<GEMINI_MODEL, GEMINI_FALLBACK_MODEL>>

\* lines a response text is made of: an opening fence with a tag (three
\* backquotes and "json"), a bare fence (three backquotes), a JSON object with the taxonomy keys, the empty JSON object, a JSON
\* array, a line that is no JSON, and a blank line
FENCEJ == "fence json"
FENCE == "fence"
OBJ == "{taxonomy}"
EMPTYOBJ == "{}"
ARR == "[]"
JUNK == "junk"
BLANKLINE == ""
Lines == {FENCEJ, FENCE, OBJ, EMPTYOBJ, ARR, JUNK, BLANKLINE}
JsonValues == {OBJ, EMPTYOBJ, ARR}

\* generate_content raising, or a response whose .text is None
ServiceError == [kind |-> "service_error", text |-> <<>>]
NoText == [kind |-> "no_text", text |-> <<>>]
\* a response whose .text holds the lines t
Text(t) == [kind |-> "text", text |-> t]

RECURSIVE LStrip(_)
LStrip(t) == IF t # <<>> /\ Head(t) = BLANKLINE THEN LStrip(Tail(t)) ELSE t

RECURSIVE RStrip(_)
RStrip(t) ==
  IF t # <<>> /\ t[Len(t)] = BLANKLINE THEN RStrip(SubSeq(t, 1, Len(t) - 1)) ELSE t

\* str.strip() on a text given as its lines
Strip(t) == RStrip(LStrip(t))

StartsWithFence(line) == line \in {FENCE, FENCEJ}

\* the fence stripping of call_gemini, applied to response.text.strip()
\* a stripping that removes the opening fence only
StripFences_keeping_closing_fence(text) ==
  IF text # <<>> /\ StartsWithFence(text[1])
    THEN Strip(Tail(text))
    ELSE text

StripFences(text) ==
  IF text # <<>> /\ StartsWithFence(text[1])
    THEN LET l1 == IF StartsWithFence(text[1]) THEN Tail(text) ELSE text
             l2 == IF l1 # <<>> /\ l1[Len(l1)] = FENCE
                     THEN SubSeq(l1, 1, Len(l1) - 1) ELSE l1
         IN  Strip(l2)
    ELSE text

\* json.loads: exactly one JSON value, white space around it allowed
JsonLoads(text) ==
  LET IsNonBlank(l) == l # BLANKLINE
      nb == SelectSeq(text, IsNonBlank)
  IN  IF Len(nb) = 1 /\ nb[1] \in JsonValues
        THEN [ok |-> TRUE, value |-> nb[1]]
        ELSE [ok |-> FALSE, value |-> NULL]

\* the try body of one loop pass: the value parsed, or which except clause
\* the pass ends in
GeminiAttempt(resp) ==
  IF resp.kind # "text"
    THEN [kind |-> "exception", value |-> NULL]
    ELSE LET parsed == JsonLoads(StripFences(Strip(resp.text)))
         IN  IF parsed.ok THEN [kind |-> "ok", value |-> parsed.value]
             ELSE [kind |-> "json_error", value |-> NULL]

\* calls, kinds and last are history: the models called, how each pass ended
\* and the response of the latest pass
GeminiStart ==
  [i |-> 1, calls |-> <<>>, kinds |-> <<>>, out |-> "running",
   classification |-> NULL, model_name |-> NULL, last |-> NoText]

\* one pass of "for model_name in models_to_try" on the response resp
\* a loop pass that falls back after a parse error only
GeminiPass_raising_on_exception(g, resp) ==
  LET model_name == models_to_try[g.i]
      a == GeminiAttempt(resp)
      g1 == [g EXCEPT !.calls = Append(g.calls, model_name),
                      !.kinds = Append(g.kinds, a.kind), !.last = resp]
  IN  IF a.kind = "ok"
        THEN [g1 EXCEPT !.out = "returned", !.classification = a.value,
                        !.model_name = model_name]
      ELSE IF a.kind = "exception" \/ model_name = models_to_try[Len(models_to_try)]
        THEN [g1 EXCEPT !.out = "raised"]
      ELSE [g1 EXCEPT !.i = g.i + 1]

GeminiPass(g, resp) ==
  LET model_name == models_to_try[g.i]
      a == GeminiAttempt(resp)
      g1 == [g EXCEPT !.calls = Append(g.calls, model_name),
                      !.kinds = Append(g.kinds, a.kind), !.last = resp]
  IN  IF a.kind = "ok"
        THEN [g1 EXCEPT !.out = "returned", !.classification = a.value,
                        !.model_name = model_name]
      ELSE IF model_name = models_to_try[Len(models_to_try)]
        THEN [g1 EXCEPT !.out = "raised"]
      ELSE [g1 EXCEPT !.i = g.i + 1]

\* call_gemini when the model tried in pass i answers resps[i]
RECURSIVE GeminiLoop(_, _)
GeminiLoop(g, resps) ==
  IF g.out # "running" \/ g.i > Len(models_to_try) THEN g
  ELSE GeminiLoop(GeminiPass(g, resps[g.i]), resps)

call_gemini(resps) ==
  LET g == GeminiLoop(GeminiStart, resps)
  IN  IF g.out = "running" THEN [g EXCEPT !.out = "raised"] ELSE g

\* main's preview calls classification.get(...): only a dict has it
PreviewOk(classification) == classification \in {OBJ, EMPTYOBJ}

\* classification.get("sale_result"): None when the key is missing
SaleResult(classification) == IF classification = OBJ THEN "sale" ELSE NULL

\* an INSERT that writes the configured primary model's name
InsertClassification_primary_name(cls, c, classification, model_name, transcript_text) ==
  Append(cls, [call_id |-> c, contactId |-> c,
               sale_result |-> SaleResult(classification),
               llm_model |-> GEMINI_MODEL, transcript |-> transcript_text])

\* INSERT INTO call_classifications (...) VALUES (...): one more row, its
\* taxonomy columns read from the classification with .get and defaults
InsertClassification(cls, c, classification, model_name, transcript_text) ==
  Append(cls, [call_id |-> c, contactId |-> c,
               sale_result |-> SaleResult(classification),
               llm_model |-> model_name, transcript |-> transcript_text])

\* UPDATE tracking SET gemini_analysed = 1 WHERE contactId = @contact_id
\* an UPDATE without its WHERE clause
UpdateGeminiAnalysed_every_row(trk, c) ==
  [i \in DOMAIN trk |-> [trk[i] EXCEPT !.gemini_analysed = 1]]

UpdateGeminiAnalysed(trk, c) ==
  [i \in DOMAIN trk |->
     IF trk[i].contactId = c THEN [trk[i] EXCEPT !.gemini_analysed = 1]
     ELSE trk[i]]

\* save_classification_error only prints: both tables stay as they are
\* an error handler that marks the contact as analysed
save_classification_error_marking(trk, c) ==
  [i \in DOMAIN trk |->
     IF trk[i].contactId = c THEN [trk[i] EXCEPT !.gemini_analysed = 1] ELSE trk[i]]

save_classification_error(trk, c) == trk

(* ======= transcribe_v2.py: format_multichannel_conversation ============ *)
\* a stereo recognition output: channel 0 and channel 1
ChannelIds == {0, 1, 2}
Starts == {0, 1}
\* a text is a sequence of characters: SP is the space, NL the newline,
\* COLON the colon; AGENT, CUSTOMER, CHANNEL and SPEAKER stand for the
\* letters of the label words, Digit(n) for the decimal digits of n, and
\* every other character is the code of a letter of a recognised word
SP == 0
NL == 1
COLON == 2
AGENT == 3
CUSTOMER == 4
CHANNEL == 5
SPEAKER == 6
Digit(n) == 100 + n

\* the word of channel ch at position k: one letter of its own, or the empty
\* string (the value .get("word", "") gives for a missing key)
Letter(ch, k) == (ch + 1) * 10 + k
WordInfos(ch, k) ==
  {[word |-> w, start |-> st, end |-> k] :
     w \in {<<>>, <<Letter(ch, k)>>}, st \in Starts}

\* the word lists one channel can carry: up to MaxWords words on the two
\* channels of a stereo recording, one word on a further channel
WordCap(ch) == IF ch <= 1 THEN MaxWords ELSE 1
ChannelWords(ch) ==
  UNION {{ws \in [1..n -> UNION {WordInfos(ch, k) : k \in 1..n}] :
            \A k \in 1..n : ws[k] \in WordInfos(ch, k)} : n \in 0..WordCap(ch)}

NoWords == [ch \in ChannelIds |-> <<>>]

\* the loop over enumerate(channels): every word with its channel index,
\* channel after channel
RECURSIVE CollectWords(_, _)
CollectWords(channels, ch) ==
  IF ch \notin DOMAIN channels THEN <<>>
  ELSE [k \in DOMAIN channels[ch] |->
          [word |-> channels[ch][k].word, start |-> channels[ch][k].start,
           end |-> channels[ch][k].end, channel |-> ch]]
       \o CollectWords(channels, ch + 1)

\* an insertion that puts w in front of the first word that starts at the
\* same time or later
RECURSIVE InsertByStart_before_equal(_, _)
InsertByStart_before_equal(sorted, w) ==
  IF sorted = <<>> THEN <<w>>
  ELSE IF w.start <= Head(sorted).start THEN <<w>> \o sorted
  ELSE <<Head(sorted)>> \o InsertByStart_before_equal(Tail(sorted), w)

\* list.sort(key=start) is stable: a word goes behind every word already
\* placed whose start is not later
RECURSIVE InsertByStart(_, _)
InsertByStart(sorted, w) ==
  IF sorted = <<>> THEN <<w>>
  ELSE IF w.start < Head(sorted).start THEN <<w>> \o sorted
  ELSE <<Head(sorted)>> \o InsertByStart(Tail(sorted), w)

RECURSIVE SortByStart(_)
SortByStart(ws) ==
  IF ws = <<>> THEN <<>>
  ELSE InsertByStart(SortByStart(SubSeq(ws, 1, Len(ws) - 1)), ws[Len(ws)])

\* " ".join(words)
RECURSIVE JoinWords(_)
JoinWords(words) ==
  IF words = <<>> THEN <<>>
  ELSE IF Len(words) = 1 THEN words[1]
  ELSE words[1] \o <<SP>> \o JoinWords(Tail(words))

\* str.strip() on a text
RECURSIVE LStripText(_)
LStripText(t) == IF t # <<>> /\ Head(t) = SP THEN LStripText(Tail(t)) ELSE t
RECURSIVE RStripText(_)
RStripText(t) ==
  IF t # <<>> /\ t[Len(t)] = SP THEN RStripText(SubSeq(t, 1, Len(t) - 1)) ELSE t
StripText(t) == RStripText(LStripText(t))

\* the grouping loop over all_words[1:], with the utterance in progress
\* (current_channel, current_words) and the utterances closed so far
RECURSIVE GroupWords(_, _, _, _)
GroupWords(rest, current_channel, current_words, utterances) ==
  IF rest = <<>>
    THEN Append(utterances, [channel |-> current_channel,
                             text |-> JoinWords(current_words)])
  ELSE IF Head(rest).channel = current_channel
    THEN GroupWords(Tail(rest), current_channel,
                    Append(current_words, Head(rest).word), utterances)
  ELSE GroupWords(Tail(rest), Head(rest).channel, <<Head(rest).word>>,
                  Append(utterances, [channel |-> current_channel,
                                      text |-> JoinWords(current_words)]))

\* CHANNEL_LABELS.get(ch, f"Channel {ch + 1}")
\* a generic label that prints the zero-based index
CHANNEL_LABELS_zero_based(ch) ==
  IF ch = 0 THEN <<AGENT>>
  ELSE IF ch = 1 THEN <<CUSTOMER>>
  ELSE <<CHANNEL, SP, Digit(ch)>>

CHANNEL_LABELS(ch) ==
  IF ch = 0 THEN <<AGENT>>
  ELSE IF ch = 1 THEN <<CUSTOMER>>
  ELSE <<CHANNEL, SP, Digit(ch + 1)>>

\* a formatting loop that keeps every utterance as it is
RECURSIVE FormatLines_keeping_blank(_)
FormatLines_keeping_blank(utterances) ==
  IF utterances = <<>> THEN <<>>
  ELSE <<[label |-> CHANNEL_LABELS(Head(utterances).channel),
          text |-> Head(utterances).text]>>
       \o FormatLines_keeping_blank(Tail(utterances))

\* the formatting loop: a line per utterance whose stripped text is not empty
RECURSIVE FormatLines(_)
FormatLines(utterances) ==
  IF utterances = <<>> THEN <<>>
  ELSE LET text == StripText(Head(utterances).text)
       IN  (IF text # <<>>
              THEN <<[label |-> CHANNEL_LABELS(Head(utterances).channel),
                      text |-> text]>>
              ELSE <<>>)
           \o FormatLines(Tail(utterances))

\* the lines of the returned string ("" has none)
GroupAndFormat(all_words) ==
  IF all_words = <<>> THEN <<>>
  ELSE FormatLines(GroupWords(Tail(all_words), all_words[1].channel,
                              <<all_words[1].word>>, <<>>))

\* "\n".join(f"{label}: {text}" for each line)
RECURSIVE JoinLines(_)
JoinLines(lines) ==
  IF lines = <<>> THEN <<>>
  ELSE IF Len(lines) = 1 THEN lines[1].label \o <<COLON, SP>> \o lines[1].text
  ELSE lines[1].label \o <<COLON, SP>> \o lines[1].text \o <<NL>>
       \o JoinLines(Tail(lines))

format_multichannel_conversation(channels) ==
  JoinLines(GroupAndFormat(SortByStart(CollectWords(channels, 0))))

FormatStart(channels) ==
  [pc |-> "collect", channels |-> channels, all_words |-> <<>>, lines |-> <<>>]

(* ============ transcribe_v2.py: parse_deepgram_response ================ *)
\* the speaker tags an utterance can carry (a missing key reads as 0)
SpeakerIds == {0, 2}

\* the transcript of an utterance: absent or empty, a blank, a letter, or a
\* letter after a blank
UttLetter == 50
UttTexts == {<<>>, <<SP>>, <<UttLetter>>, <<SP, UttLetter>>}

Utterances == [speaker : SpeakerIds, transcript : UttTexts]

\* the utterance lists of a recognition output: up to MaxUtts utterances
UtteranceLists == UNION {[1..n -> Utterances] : n \in 0..MaxUtts}

\* one channel of results.channels: no alternatives, or one alternative with
\* its transcript (empty or one letter) and at most one word
ParseWords(ch) ==
  {<<>>} \cup {<<w>> : w \in {wi \in WordInfos(ch, 1) : wi.start = 0}}
ChannelOutputs(ch) ==
  {[alternatives |-> <<>>]}
    \cup {[alternatives |-> <<[transcript |-> t, words |-> ws]>>] :
            t \in {<<>>, <<Letter(ch, 1)>>}, ws \in ParseWords(ch)}

\* results.channels: zero to three channels, indexed from 0
ChannelLists ==
  UNION {{cs \in [0..(n - 1) -> UNION {ChannelOutputs(ch) : ch \in ChannelIds}] :
            \A ch \in 0..(n - 1) : cs[ch] \in ChannelOutputs(ch)}
         : n \in 0..Cardinality(ChannelIds)}

NumChannels(channels) == Cardinality(DOMAIN channels)

\* the responses: every utterance list with a mono output, and no utterance
\* or one utterance with an output of two or more channels
OneUtterance == <<[speaker |-> 0, transcript |-> <<UttLetter>>]>>
Responses ==
  {[channels |-> cs, utterances |-> us] :
     cs \in {c \in ChannelLists : NumChannels(c) < 2}, us \in UtteranceLists}
    \cup {[channels |-> cs, utterances |-> us] :
            cs \in {c \in ChannelLists : NumChannels(c) >= 2},
            us \in {<<>>, OneUtterance}}

NoResponse == [channels |-> <<>>, utterances |-> <<>>]

\* a loop that keeps the transcript of an utterance as it is
RECURSIVE SpeakerLines_unstripped(_)
SpeakerLines_unstripped(utterances) ==
  IF utterances = <<>> THEN <<>>
  ELSE LET speaker_id == Head(utterances).speaker
           transcript == Head(utterances).transcript
       IN  (IF transcript # <<>>
              THEN <<[label |-> <<SPEAKER, SP, Digit(speaker_id + 1)>>,
                      text |-> transcript]>>
              ELSE <<>>)
           \o SpeakerLines_unstripped(Tail(utterances))

\* the loop of format_conversation: a line "Speaker {speaker_id + 1}: {text}"
\* per utterance whose stripped transcript is not empty
RECURSIVE SpeakerLines(_)
SpeakerLines(utterances) ==
  IF utterances = <<>> THEN <<>>
  ELSE LET speaker_id == Head(utterances).speaker
           transcript == StripText(Head(utterances).transcript)
       IN  (IF transcript # <<>>
              THEN <<[label |-> <<SPEAKER, SP, Digit(speaker_id + 1)>>,
                      text |-> transcript]>>
              ELSE <<>>)
           \o SpeakerLines(Tail(utterances))

format_conversation(utterances) == JoinLines(SpeakerLines(utterances))

\* channels[0].alternatives[0].transcript when both exist, else ""
RawTranscript(channels) ==
  IF channels # <<>> /\ channels[0].alternatives # <<>>
    THEN channels[0].alternatives[1].transcript
    ELSE <<>>

\* the word lists format_multichannel_conversation reads: a channel without
\* alternatives is skipped
WordLists(channels) ==
  [ch \in DOMAIN channels |->
     IF channels[ch].alternatives = <<>> THEN <<>>
     ELSE channels[ch].alternatives[1].words]

\* the lines of the labeled transcript, by the branch taken (the fallback to
\* the raw transcript has none)
LabeledLines(response) ==
  IF NumChannels(response.channels) >= 2
    THEN GroupAndFormat(SortByStart(CollectWords(WordLists(response.channels), 0)))
  ELSE IF response.utterances # <<>> THEN SpeakerLines(response.utterances)
  ELSE <<>>

\* result["transcription"]
LabeledTranscript(response, transcription_raw) ==
  IF NumChannels(response.channels) >= 2
    THEN format_multichannel_conversation(WordLists(response.channels))
  ELSE IF response.utterances # <<>> THEN format_conversation(response.utterances)
  ELSE transcription_raw

\* seen is history: the response and the result of every invocation that
\* has returned
ParseStart(response) ==
  [pc |-> "raw", response |-> response, lines |-> <<>>,
   result |-> [transcription |-> <<>>, transcription_raw |-> <<>>],
   seen |-> <<>>]

\* the responses later invocations are made on, besides the ones seen
ProbeResponses ==
  {NoResponse,
   [channels |-> <<>>, utterances |-> OneUtterance]}

\* a later invocation, after the invocation p has returned: result and the
\* lists of the formatters are built anew
\* an invocation that goes on with the lists and the result of the last one
ParseInvoke_keeping_locals(p, response) ==
  [p EXCEPT !.pc = "raw", !.response = response,
            !.seen = Append(p.seen, [response |-> p.response, result |-> p.result])]

ParseInvoke(p, response) ==
  [ParseStart(response) EXCEPT
     !.seen = Append(p.seen, [response |-> p.response, result |-> p.result])]

(* ================== the start of the three programs ==================== *)
\* the environment variables each module checks when it is imported
required_vars(stage) ==
  IF stage = "fetch"
    THEN {"GCP_PROJECT_ID", "GCP_DATASET_ID", "GCP_SOURCE_TABLE",
          "GCP_TRACKING_TABLE", "GCS_BUCKET_NAME"}
  ELSE IF stage = "transcribe"
    THEN {"GCP_PROJECT_ID", "GCP_DATASET_ID", "GCP_TRACKING_TABLE",
          "GCS_BUCKET_NAME", "DEEPGRAM_API_KEY"}
  ELSE {"GCP_PROJECT_ID", "GCP_DATASET_ID", "GCP_TRACKING_TABLE"}

\* the credentials CXoneAuthenticator._validate_credentials asks for
\* a validation that does not look at the client secret
required_credentials_without_secret ==
  {"CXONE_USERNAME", "CXONE_PASSWORD", "CXONE_CLIENT_ID"}

required_credentials ==
  {"CXONE_USERNAME", "CXONE_PASSWORD", "CXONE_CLIENT_ID", "CXONE_CLIENT_SECRET"}

\* everything a stage reads from its environment without a default
Settings(stage) ==
  required_vars(stage)
    \cup (IF stage = "fetch"
            THEN {"CXONE_USERNAME", "CXONE_PASSWORD", "CXONE_CLIENT_ID",
                  "CXONE_CLIENT_SECRET"}
            ELSE {})

\* a program about to be imported, with the settings its environment lacks
BootStart(stage, missing) ==
  [stage |-> stage, missing |-> missing, pc |-> "import",
   adapter_calls |-> 0, table_calls |-> 0, selected |-> FALSE]

(* ---------------------------- authentication -------------------------- *)
\* Python's None, for a token and for token_expiry
None == 0 - 1

\* "expires_in - 60": the buffer taken off the lifetime
EXPIRY_BUFFER == 60
\* auth_data.get("expires_in", 3600)
DEFAULT_EXPIRES_IN == 3600

\* expires_in of a response: a number of seconds, absent, or a JSON value
\* that is not a number (a string, null)
Absent == 0 - 2
NotANumber == 0 - 3
ExpiresIn == {60, 90, Absent, NotANumber}

\* what the token endpoint answers to the n-th call of authenticate: an HTTP
\* error status, a transport error, a body that is not JSON, or a JSON object;
\* the tokens of the n-th answer are numbered n
AuthResponses(n) ==
  [kind : {"http_error", "transport_error", "not_json"}]
    \cup [kind : {"object"}, access_token : {None, n}, refresh_token : {n},
          id_token : {n}, token_type : {"absent", "bearer"},
          expires_in : ExpiresIn]

\* how far the clock moves in one advance, in seconds
Ticks == {30, 3600}

\* CXoneAuthenticator.__init__: no token, token_type "Bearer", no expiry.
\* now is the clock; calls, direct, ticks, issued and op are history: the
\* number of authenticate calls, whether one was made by itself, the number
\* of clock advances, the expiry each call computed for its tokens (None when
\* it computed none), and what the last step did
AuthStart ==
  [access_token |-> None, refresh_token |-> None, id_token |-> None,
   token_type |-> "Bearer", token_expiry |-> None,
   now |-> 0, calls |-> 0, direct |-> FALSE, ticks |-> 0, issued |-> <<>>,
   op |-> [kind |-> "none"]]

\* the fields authenticate stores
TokenFields(a) ==
  [access_token |-> a.access_token, refresh_token |-> a.refresh_token,
   id_token |-> a.id_token, token_type |-> a.token_type,
   token_expiry |-> a.token_expiry]

\* authenticate: post, raise_for_status and response.json() raise before any
\* field is assigned; then the four token fields are assigned, and then
\* "expires_in - 60" is computed, which raises TypeError on a value that is
\* not a number, an exception no except clause of the function catches
authenticate(a, resp) ==
  IF resp.kind # "object"
    THEN [fields |-> TokenFields(a), raised |-> TRUE, expiry |-> None]
    ELSE LET stored == [TokenFields(a) EXCEPT
                          !.access_token = resp.access_token,
                          !.refresh_token = resp.refresh_token,
                          !.id_token = resp.id_token,
                          !.token_type = IF resp.token_type = "absent"
                                           THEN "Bearer" ELSE resp.token_type]
         IN  IF resp.expires_in = NotANumber
               THEN [fields |-> stored, raised |-> TRUE, expiry |-> None]
               ELSE LET expires_in == IF resp.expires_in = Absent
                                        THEN DEFAULT_EXPIRES_IN
                                        ELSE resp.expires_in
                        token_expiry == a.now + (expires_in - EXPIRY_BUFFER)
                    IN  [fields |-> [stored EXCEPT !.token_expiry = token_expiry],
                         raised |-> FALSE, expiry |-> token_expiry]

\* is_token_expired: no expiry, or the clock at or past it
is_token_expired(a) ==
  a.token_expiry = None \/ a.now >= a.token_expiry

\* "if not self.access_token or self.is_token_expired()"
NeedsAuthentication(a) ==
  a.access_token = None \/ is_token_expired(a)

\* the authenticator after a call of authenticate that got the answer resp
Authenticated(a, resp) ==
  LET r == authenticate(a, resp)
  IN  [a EXCEPT !.access_token = r.fields.access_token,
                !.refresh_token = r.fields.refresh_token,
                !.id_token = r.fields.id_token,
                !.token_type = r.fields.token_type,
                !.token_expiry = r.fields.token_expiry,
                !.calls = @ + 1,
                !.issued = Append(@, r.expiry)]

(* ============================ the processes ============================ *)
pvars == <<source, tracking, classifications, run, started, dupSel,
           answered404, hadTranscribed, ev>>

Init ==
  /\ source = OneContact
  /\ tracking = <<>>
  /\ classifications = <<>>
  /\ run = [p \in Procs |-> Idle]
  /\ started = 0
  /\ dupSel = {}
  /\ answered404 = {}
  /\ hadTranscribed = {}
  /\ ev = NoEvent
  /\ gem = GeminiStart
  /\ fmt = FormatStart(NoWords)
  /\ prs = ParseStart(NoResponse)
  /\ boot = BootStart("fetch", {})
  /\ auth = AuthStart

ContactIds(pending) == {pending[k].contactId : k \in DOMAIN pending}

\* the selection a program makes right after start-up
Select(stage, src, trk) ==
  IF stage = "fetch"
    THEN LET ids == get_pending_contacts(src, trk, FETCH_LIMIT)
         IN  [k \in DOMAIN ids |-> [contactId |-> ids[k], payload |-> NULL]]
  ELSE IF stage = "transcribe"
    THEN get_pending_transcriptions(trk, TRANSCRIBE_LIMIT)
  ELSE get_pending_classifications(trk, CLASSIFY_LIMIT)

NotFoundIds(trk) ==
  {trk[i].contactId : i \in {j \in DOMAIN trk : trk[j].status = "NOT_FOUND"}}

\* main() up to the loop: select; "if not pending: return"
StartRun(p, stage) ==
  /\ run[p].stage = "idle"
  /\ started < MaxRuns
  /\ LET pend == Select(stage, source, tracking)
         others == UNION {ContactIds(run[q].pending) :
                            q \in {x \in Procs \ {p} : run[x].stage = stage}}
     IN  /\ run' = [run EXCEPT ![p] =
                      IF pend = <<>> THEN Idle
                      ELSE [stage |-> stage, pc |-> "record", pending |-> pend,
                            processed |-> 0,
                            success_count |-> 0, failed_count |-> 0,
                            written |-> 0,
                            seen404 |-> IF stage = "fetch" THEN answered404 ELSE {},
                            notFound0 |-> IF stage = "fetch"
                                            THEN NotFoundIds(tracking) ELSE {}]]
         /\ dupSel' = dupSel \cup {<<stage, c>> : c \in ContactIds(pend) \cap others}
         /\ ev' = [kind |-> "select", stage |-> stage, pending |-> pend]
  /\ started' = started + 1
  /\ UNCHANGED <<source, tracking, classifications, answered404, hadTranscribed, gem, fmt, prs, boot, auth>>

\* the loop moves to the next record; the program ends after the last one
\* (transcribe_v2 also ends at "if processed >= 4: break")
Advance(r) ==
  LET rest == Tail(r.pending)
      n == r.processed + 1
  IN  IF rest = <<>> \/ (r.stage = "transcribe" /\ n >= TRANSCRIBE_BREAK)
        THEN Idle
        ELSE [r EXCEPT !.pending = rest, !.processed = n, !.pc = "record"]

\* the selected records a run has not been through when the pass that takes
\* it from r to r2 is its last one
Skipped(r, r2) == IF r2.stage = "idle" THEN Len(r.pending) - 1 ELSE 0

\* the counters after one record: success_count += 1 or failed_count += 1;
\* written (history) counts the success outcomes the ledger took
Tally(r, success, wrote) ==
  [r EXCEPT !.success_count = @ + (IF success THEN 1 ELSE 0),
            !.failed_count = @ + (IF success THEN 0 ELSE 1),
            !.written = @ + (IF wrote THEN 1 ELSE 0)]

\* the summary printed after the loop, when the pass that leaves the
\* counters r is the last one of the run
NoSummary == [processed |-> 0, succeeded |-> 0, failed |-> 0, written |-> 0]
Summary(r, r2) ==
  IF r2.stage = "idle"
    THEN [processed |-> r.processed + 1, succeeded |-> r.success_count,
          failed |-> r.failed_count, written |-> r.written]
    ELSE NoSummary

\* "if processed < len(pending): time.sleep(SLEEP_BETWEEN_CALLS)" at the end
\* of a pass of the transcribe and classify loops
SleptAfter(r) == r.processed + 1 < r.processed + Len(r.pending)

\* the class of the recording source's answer to one fetch attempt
FetchAnswer(resp) ==
  IF resp = "http_404" THEN "not_found"
  ELSE IF resp = "no_files" THEN "no_file"
  ELSE IF resp = "ok" THEN "ok"
  ELSE "failure"

\* main.py, one pass of the loop: the adapter calls, then save_to_bq of the
\* row of the branch taken; ok = the streaming insert returned no errors
FetchRecord(p, resp, ok) ==
  /\ run[p].stage = "fetch"
  /\ LET c == Head(run[p].pending).contactId
         status == FetchStatus(resp)
     IN  /\ tracking' = save_to_bq(tracking, FetchRow(c, status, Now(tracking)), ok)
         /\ answered404' = IF resp = "http_404" THEN answered404 \cup {c}
                           ELSE answered404
         /\ ev' = [kind |-> "fetch", cid |-> c,
                   called |-> resp # "auth_error",
                   after404 |-> c \in run[p].seen404,
                   afterNotFound |-> c \in run[p].notFound0,
                   answer |-> FetchAnswer(resp), stored |-> ok,
                   fresh |-> RowsOf(tracking, c) = {},
                   skipped |-> Skipped(run[p], Advance(run[p])),
                   ended |-> Advance(run[p]).stage = "idle",
                   slept |-> resp # "no_files",
                   counts |-> Summary(Tally(run[p], resp = "ok", resp = "ok" /\ ok),
                                      Advance(run[p]))]
  /\ run' = [run EXCEPT ![p] =
               Advance(Tally(run[p], resp = "ok", resp = "ok" /\ ok))]
  /\ UNCHANGED <<source, classifications, started, dupSel, hadTranscribed, gem, fmt, prs, boot, auth>>

\* transcribe_v2.py, one pass of the loop.  ok1 = the success UPDATE went
\* through, ok2 = the failure UPDATE of the except clause went through; when
\* that one raises too the exception leaves main() and the program dies
TranscribeRecord(p, resp, ok1, ok2) ==
  /\ run[p].stage = "transcribe"
  /\ LET c == Head(run[p].pending).contactId
         commit == IF TranscribeAdapterOk(resp) /\ ok1 THEN "success"
                   ELSE IF ok2 THEN "failure" ELSE "crash"
     IN  /\ tracking' =
               IF commit = "success"
                 THEN update_bigquery_row(tracking, c, Parsed(resp), TRUE)
               ELSE IF commit = "failure"
                 THEN update_bigquery_row(tracking, c, Parsed(resp), FALSE)
               ELSE tracking
         /\ run' = [run EXCEPT ![p] =
                      IF commit = "crash" THEN Idle
                      ELSE Advance(Tally(run[p], commit = "success",
                                         commit = "success"))]
         /\ hadTranscribed' = IF commit = "success"
                                THEN hadTranscribed \cup RowsOf(tracking, c)
                                ELSE hadTranscribed
         /\ ev' = [kind |-> "transcribe", cid |-> c,
                   adapter_ok |-> TranscribeAdapterOk(resp),
                   parse_ok |-> ParseOk(resp), commit |-> commit,
                   skipped |-> Skipped(run[p], IF commit = "crash" THEN Idle
                                               ELSE Advance(run[p])),
                   ended |-> commit = "crash" \/ Advance(run[p]).stage = "idle",
                   slept |-> commit # "crash" /\ SleptAfter(run[p]),
                   counts |-> IF commit = "crash" THEN NoSummary
                              ELSE Summary(Tally(run[p], commit = "success",
                                                 commit = "success"),
                                           Advance(run[p]))]
  /\ UNCHANGED <<source, classifications, started, dupSel, answered404, gem, fmt, prs, boot, auth>>

\* the response sets the classify stage is run against
PipelineResponses ==
  {ServiceError, Text(<<OBJ>>), Text(<<EMPTYOBJ>>), Text(<<JUNK>>), Text(<<ARR>>)}

\* the position in models_to_try of the first response that is JSON, 0 if none
Accepted(r1, r2) ==
  IF GeminiAttempt(r1).kind = "ok" THEN 1
  ELSE IF GeminiAttempt(r2).kind = "ok" THEN 2 ELSE 0

\* classify_calls.py, one pass of the loop up to and including the INSERT of
\* save_classification; ok = the INSERT went through
ClassifyCall(p, r1, r2, ok) ==
  /\ run[p].stage = "classify"
  /\ run[p].pc = "record"
  /\ LET c == Head(run[p].pending).contactId
         transcription == Head(run[p].pending).payload
         g == call_gemini(<<r1, r2>>)
         outcome == IF g.out # "returned" THEN "gemini_failed"
                    ELSE IF ~PreviewOk(g.classification) THEN "not_a_dict"
                    ELSE IF ~ok THEN "insert_failed"
                    ELSE "inserted"
     IN  /\ classifications' =
               IF outcome = "inserted"
                 THEN InsertClassification(classifications, c, g.classification,
                                           g.model_name, transcription)
                 ELSE classifications
         /\ tracking' = IF outcome = "inserted" THEN tracking
                        ELSE save_classification_error(tracking, c)
         /\ run' = [run EXCEPT ![p] =
                      IF outcome = "inserted" THEN [run[p] EXCEPT !.pc = "update"]
                      ELSE Advance(Tally(run[p], FALSE, FALSE))]
         /\ ev' = [kind |-> "classify", cid |-> c, outcome |-> outcome,
                   accepted |-> Accepted(r1, r2),
                   skipped |-> IF outcome = "inserted" THEN 0
                               ELSE Skipped(run[p], Advance(run[p])),
                   ended |-> outcome # "inserted" /\ Advance(run[p]).stage = "idle",
                   slept |-> outcome # "inserted" /\ SleptAfter(run[p]),
                   counts |-> IF outcome = "inserted" THEN NoSummary
                              ELSE Summary(Tally(run[p], FALSE, FALSE),
                                           Advance(run[p]))]
  /\ UNCHANGED <<source, started, dupSel, answered404, hadTranscribed, gem, fmt, prs, boot, auth>>

\* the UPDATE of save_classification; ok = it went through, otherwise the
\* exception is caught in main and the record counts as failed
ClassifyUpdate(p, ok) ==
  /\ run[p].stage = "classify"
  /\ run[p].pc = "update"
  /\ LET c == Head(run[p].pending).contactId
     IN  /\ tracking' = IF ok THEN UpdateGeminiAnalysed(tracking, c)
                        ELSE save_classification_error(tracking, c)
         /\ ev' = [kind |-> "classify_update", cid |-> c, ok |-> ok,
                   skipped |-> Skipped(run[p], Advance(run[p])),
                   ended |-> Advance(run[p]).stage = "idle",
                   slept |-> SleptAfter(run[p]),
                   counts |-> Summary(Tally(run[p], ok, ok), Advance(run[p]))]
  /\ run' = [run EXCEPT ![p] = Advance(Tally(run[p], ok, ok))]
  /\ UNCHANGED <<source, classifications, started, dupSel, answered404,
                 hadTranscribed, gem, fmt, prs, boot, auth>>

\* the process is killed
Kill(p) ==
  /\ run[p].stage # "idle"
  /\ run' = [run EXCEPT ![p] = Idle]
  /\ ev' = [kind |-> "kill", stage |-> run[p].stage]
  /\ UNCHANGED <<source, tracking, classifications, started, dupSel,
                 answered404, hadTranscribed, gem, fmt, prs, boot, auth>>

\* process names carry no meaning: p2 is used only while p1 is busy
Free(p) == p = "p1" \/ run["p1"].stage # "idle"

\* the outcomes a pass consults: the outcome of a call or of a write the
\* pass does not make is not drawn (it is fixed to a value of no effect)
TranscribeInputs ==
  {x \in TranscribeResponses \X BOOLEAN \X BOOLEAN :
     /\ ~TranscribeAdapterOk(x[1]) => x[2]
     /\ (TranscribeAdapterOk(x[1]) /\ x[2]) => x[3]}

ClassifyInputs ==
  {x \in PipelineResponses \X PipelineResponses \X BOOLEAN :
     /\ Accepted(x[1], x[2]) = 1 => x[2] = ServiceError
     /\ (call_gemini(<<x[1], x[2]>>).out # "returned"
           \/ ~PreviewOk(call_gemini(<<x[1], x[2]>>).classification)) => x[3]}

Next ==
  \/ \E p \in Procs, stage \in Stages : Free(p) /\ StartRun(p, stage)
  \/ \E p \in Procs, resp \in FetchResponses, ok \in BOOLEAN :
       FetchRecord(p, resp, ok)
  \/ \E p \in Procs, x \in TranscribeInputs : TranscribeRecord(p, x[1], x[2], x[3])
  \/ \E p \in Procs, x \in ClassifyInputs : ClassifyCall(p, x[1], x[2], x[3])
  \/ \E p \in Procs, ok \in BOOLEAN : ClassifyUpdate(p, ok)
  \/ \E p \in Procs : Kill(p)

Spec == Init /\ [][Next]_vars

(* ---- one process at a time, every ledger write going through ---------- *)
InitSeq ==
  /\ source = Contacts
  /\ tracking = <<>>
  /\ classifications = <<>>
  /\ run = [p \in Procs |-> Idle]
  /\ started = 0
  /\ dupSel = {}
  /\ answered404 = {}
  /\ hadTranscribed = {}
  /\ ev = NoEvent
  /\ gem = GeminiStart
  /\ fmt = FormatStart(NoWords)
  /\ prs = ParseStart(NoResponse)
  /\ boot = BootStart("fetch", {})
  /\ auth = AuthStart

NoneRunning == \A p \in Procs : run[p].stage = "idle"

NextSeq ==
  \/ \E stage \in Stages : NoneRunning /\ StartRun("p1", stage)
  \/ \E resp \in FetchResponses : FetchRecord("p1", resp, TRUE)
  \/ \E resp \in TranscribeResponses : TranscribeRecord("p1", resp, TRUE, TRUE)
  \/ \E x \in ClassifyInputs : x[3] /\ ClassifyCall("p1", x[1], x[2], TRUE)
  \/ ClassifyUpdate("p1", TRUE)
  \/ Kill("p1")

SpecSeq == InitSeq /\ [][NextSeq]_vars

(* ---- transcribe runs over a table of fetched recordings --------------- *)
\* one more fetched recording than a transcribe run selects
BatchSize == TRANSCRIBE_LIMIT + 1

InitBatch ==
  /\ source = 1..BatchSize
  /\ tracking = [i \in 1..BatchSize |-> FetchRow(i, "SUCCESS", i)]
  /\ classifications = <<>>
  /\ run = [p \in Procs |-> Idle]
  /\ started = 0
  /\ dupSel = {}
  /\ answered404 = {}
  /\ hadTranscribed = {}
  /\ ev = NoEvent
  /\ gem = GeminiStart
  /\ fmt = FormatStart(NoWords)
  /\ prs = ParseStart(NoResponse)
  /\ boot = BootStart("fetch", {})
  /\ auth = AuthStart

NextBatch ==
  \/ NoneRunning /\ StartRun("p1", "transcribe")
  \/ \E resp \in {"http_error", "ok_text"} : TranscribeRecord("p1", resp, TRUE, TRUE)

SpecBatch == InitBatch /\ [][NextBatch]_vars

(* ---- call_gemini alone, pass by pass, over every response text -------- *)
Texts == UNION {[1..k -> Lines] : k \in 0..MaxLines}
GeminiResponses == {ServiceError, NoText} \cup {Text(t) : t \in Texts}

\* one pass of the loop
GemPass ==
  /\ gem.out = "running"
  /\ \E resp \in GeminiResponses : gem' = GeminiPass(gem, resp)
  /\ UNCHANGED <<pvars, fmt, prs, boot, auth>>

\* call_gemini has returned or raised; the next record's call begins
GemNextCall ==
  /\ gem.out # "running"
  /\ gem' = GeminiStart
  /\ UNCHANGED <<pvars, fmt, prs, boot, auth>>

NextGemini == GemPass \/ GemNextCall

SpecGemini == Init /\ [][NextGemini]_vars

(* -- format_multichannel_conversation alone, over every multichannel output *)
InitFormat ==
  /\ source = OneContact
  /\ tracking = <<>>
  /\ classifications = <<>>
  /\ run = [p \in Procs |-> Idle]
  /\ started = 0
  /\ dupSel = {}
  /\ answered404 = {}
  /\ hadTranscribed = {}
  /\ ev = NoEvent
  /\ gem = GeminiStart
  /\ \E c0 \in ChannelWords(0), c1 \in ChannelWords(1), c2 \in ChannelWords(2) :
       fmt = FormatStart([ch \in ChannelIds |->
                            IF ch = 0 THEN c0 ELSE IF ch = 1 THEN c1 ELSE c2])
  /\ prs = ParseStart(NoResponse)
  /\ boot = BootStart("fetch", {})
  /\ auth = AuthStart

\* collect the words of all channels and sort them by start time
FormatSort ==
  /\ fmt.pc = "collect"
  /\ fmt' = [fmt EXCEPT !.pc = "group",
                        !.all_words = SortByStart(CollectWords(fmt.channels, 0))]
  /\ UNCHANGED <<pvars, gem, prs, boot, auth>>

\* group the sorted words into utterances and format the lines
FormatGroup ==
  /\ fmt.pc = "group"
  /\ fmt' = [fmt EXCEPT !.pc = "done", !.lines = GroupAndFormat(fmt.all_words)]
  /\ UNCHANGED <<pvars, gem, prs, boot, auth>>

NextFormat == FormatSort \/ FormatGroup

SpecFormat == InitFormat /\ [][NextFormat]_vars

(* ------ parse_deepgram_response alone, over every response ------------- *)
InitParse ==
  /\ source = OneContact
  /\ tracking = <<>>
  /\ classifications = <<>>
  /\ run = [p \in Procs |-> Idle]
  /\ started = 0
  /\ dupSel = {}
  /\ answered404 = {}
  /\ hadTranscribed = {}
  /\ ev = NoEvent
  /\ gem = GeminiStart
  /\ fmt = FormatStart(NoWords)
  /\ \E response \in Responses : prs = ParseStart(response)
  /\ boot = BootStart("fetch", {})
  /\ auth = AuthStart

\* extract the raw transcript: assigned only when channels[0] has an
\* alternative
ParseRaw ==
  /\ prs.pc = "raw"
  /\ prs' = [prs EXCEPT !.pc = "labeled",
                        !.result.transcription_raw =
                           IF prs.response.channels # <<>>
                                /\ prs.response.channels[0].alternatives # <<>>
                             THEN RawTranscript(prs.response.channels)
                             ELSE @]
  /\ UNCHANGED <<pvars, gem, fmt, boot, auth>>

\* extract the labeled transcript: the formatter of the branch taken appends
\* its lines and joins them, or the raw transcript is copied
ParseLabeled ==
  /\ prs.pc = "labeled"
  /\ LET lines == prs.lines \o LabeledLines(prs.response)
     IN  prs' = [prs EXCEPT !.pc = "done",
                           !.lines = lines,
                           !.result.transcription =
                              IF NumChannels(prs.response.channels) >= 2
                                   \/ prs.response.utterances # <<>>
                                THEN JoinLines(lines)
                                ELSE prs.result.transcription_raw]
  /\ UNCHANGED <<pvars, gem, fmt, boot, auth>>

\* the function is called again, on a response seen before or on a probe
ParseAgain ==
  /\ prs.pc = "done"
  /\ Len(prs.seen) + 1 < MaxParses
  /\ \E response \in {prs.response} \cup {prs.seen[k].response : k \in DOMAIN prs.seen}
                        \cup ProbeResponses :
       prs' = ParseInvoke(prs, response)
  /\ UNCHANGED <<pvars, gem, fmt, boot, auth>>

NextParse == ParseRaw \/ ParseLabeled \/ ParseAgain

SpecParse == InitParse /\ [][NextParse]_vars

(* ------------- the start of one program, up to its selection ---------- *)
InitStartup ==
  /\ source = OneContact
  /\ tracking = <<>>
  /\ classifications = <<>>
  /\ run = [p \in Procs |-> Idle]
  /\ started = 0
  /\ dupSel = {}
  /\ answered404 = {}
  /\ hadTranscribed = {}
  /\ ev = NoEvent
  /\ gem = GeminiStart
  /\ fmt = FormatStart(NoWords)
  /\ prs = ParseStart(NoResponse)
  /\ \E stage \in Stages : \E missing \in SUBSET Settings(stage) :
       boot = BootStart(stage, missing)
  /\ auth = AuthStart

\* module level: "if missing_vars: raise ValueError"
BootImport ==
  /\ boot.pc = "import"
  /\ boot' = [boot EXCEPT !.pc = IF required_vars(boot.stage) \cap boot.missing # {}
                                   THEN "failed" ELSE "main"]
  /\ UNCHANGED <<pvars, gem, fmt, prs, auth>>

\* main: init_clients / init_bq_client build the storage clients; the fetch
\* stage then runs ensure_tracking_table and the transcribe stage
\* ensure_new_columns, which read (and may alter) the table definition
BootInitClients ==
  /\ boot.pc = "main"
  /\ boot' = [boot EXCEPT !.pc = IF boot.stage = "fetch" THEN "authenticator"
                                 ELSE IF boot.stage = "classify" THEN "genai"
                                 ELSE "select",
                          !.table_calls = IF boot.stage = "classify" THEN 0 ELSE 1]
  /\ UNCHANGED <<pvars, gem, fmt, prs, auth>>

\* auth = CXoneAuthenticator(): __init__ ends with _validate_credentials
BootAuthenticator ==
  /\ boot.pc = "authenticator"
  /\ boot' = [boot EXCEPT !.pc = IF required_credentials \cap boot.missing # {}
                                   THEN "failed" ELSE "fetcher"]
  /\ UNCHANGED <<pvars, gem, fmt, prs, auth>>

\* fetcher = RecordingFetcher(auth): __init__ calls _extract_base_url, which
\* authenticates against the recording source; ok = the call succeeded
BootFetcher(ok) ==
  /\ boot.pc = "fetcher"
  /\ boot' = [boot EXCEPT !.pc = IF ok THEN "select" ELSE "failed",
                          !.adapter_calls = @ + 1]
  /\ UNCHANGED <<pvars, gem, fmt, prs, auth>>

\* get_genai_client(): builds the client object; ok = no exception
BootGenai(ok) ==
  /\ boot.pc = "genai"
  /\ boot' = [boot EXCEPT !.pc = IF ok THEN "select" ELSE "failed"]
  /\ UNCHANGED <<pvars, gem, fmt, prs, auth>>

\* the selection query of the stage: the first read of record rows
BootSelect ==
  /\ boot.pc = "select"
  /\ boot' = [boot EXCEPT !.pc = "loop", !.selected = TRUE]
  /\ UNCHANGED <<pvars, gem, fmt, prs, auth>>

NextStartup ==
  \/ BootImport
  \/ BootInitClients
  \/ BootAuthenticator
  \/ \E ok \in BOOLEAN : BootFetcher(ok)
  \/ \E ok \in BOOLEAN : BootGenai(ok)
  \/ BootSelect

SpecStartup == InitStartup /\ [][NextStartup]_vars

\* ---- the transcribe stage run again and again over a stored batch ----
\* the gcs_uri of a recording the recognition service rejects on every call
Unplayable == "gs_unplayable"

\* BatchSize rows stored by the fetch stage, some of recordings that the
\* recognition service rejects
InitStarve ==
  /\ source = 1..BatchSize
  /\ \E bad \in SUBSET (1..BatchSize) :
       tracking = [i \in 1..BatchSize |->
                     [FetchRow(i, "SUCCESS", i) EXCEPT
                        !.gcs_uri = IF i \in bad THEN Unplayable ELSE GCS]]
  /\ classifications = <<>>
  /\ run = [p \in Procs |-> Idle]
  /\ started = 0
  /\ dupSel = {}
  /\ answered404 = {}
  /\ hadTranscribed = {}
  /\ ev = NoEvent
  /\ gem = GeminiStart
  /\ fmt = FormatStart(NoWords)
  /\ prs = ParseStart(NoResponse)
  /\ boot = BootStart("fetch", {})
  /\ auth = AuthStart

\* the stage is started once more, any number of times: main() up to the loop
RunAgain ==
  /\ NoneRunning
  /\ LET pend == Select("transcribe", source, tracking)
     IN  /\ run' = [run EXCEPT !["p1"] =
                      IF pend = <<>> THEN Idle
                      ELSE [stage |-> "transcribe", pc |-> "record",
                            pending |-> pend, processed |-> 0,
                            success_count |-> 0, failed_count |-> 0,
                            written |-> 0, seen404 |-> {}, notFound0 |-> {}]]
         /\ ev' = [kind |-> "select", stage |-> "transcribe", pending |-> pend]
  /\ UNCHANGED <<source, tracking, classifications, started, dupSel,
                 answered404, hadTranscribed, gem, fmt, prs, boot, auth>>

\* one loop pass: the service rejects an unplayable recording and
\* transcribes every other one
StarveRecord ==
  /\ run["p1"].stage = "transcribe"
  /\ TranscribeRecord("p1",
                      IF Head(run["p1"].pending).payload = Unplayable
                        THEN "http_error" ELSE "ok_text",
                      TRUE, TRUE)

NextStarve == RunAgain \/ StarveRecord

\* the stage is run again and again, and a run that has started goes on
SpecStarve == InitStarve /\ [][NextStarve]_vars /\ WF_vars(RunAgain) /\ WF_vars(StarveRecord)

\* ---- one authenticator, called while its clock advances ----
\* time passes
AuthTick(d) ==
  /\ auth.ticks < MaxTicks
  /\ auth' = [auth EXCEPT !.now = @ + d, !.ticks = @ + 1,
                          !.op = [kind |-> "tick"]]
  /\ UNCHANGED <<pvars, gem, fmt, prs, boot>>

\* authenticate is called by itself (RecordingFetcher._extract_base_url)
Authenticate(resp) ==
  /\ auth.calls < MaxAuths
  /\ auth' = [Authenticated(auth, resp) EXCEPT
               !.direct = TRUE,
               !.op = [kind |-> "authenticate", before |-> TokenFields(auth),
                       called |-> TRUE, raised |-> authenticate(auth, resp).raised,
                       resp |-> resp, returned |-> None]]
  /\ UNCHANGED <<pvars, gem, fmt, prs, boot>>

\* get_access_token with a token held that has not expired: it is returned
GetHeldToken ==
  /\ ~NeedsAuthentication(auth)
  /\ auth' = [auth EXCEPT
               !.op = [kind |-> "get", before |-> TokenFields(auth),
                       called |-> FALSE, raised |-> FALSE,
                       resp |-> [kind |-> "none"],
                       returned |-> auth.access_token]]
  /\ UNCHANGED <<pvars, gem, fmt, prs, boot>>

\* get_access_token otherwise: authenticate is called, and the token held
\* after it is returned unless authenticate raised
GetNewToken(resp) ==
  /\ NeedsAuthentication(auth)
  /\ auth.calls < MaxAuths
  /\ auth' = [Authenticated(auth, resp) EXCEPT
               !.op = [kind |-> "get", before |-> TokenFields(auth),
                       called |-> TRUE, raised |-> authenticate(auth, resp).raised,
                       resp |-> resp,
                       returned |-> IF authenticate(auth, resp).raised THEN None
                                    ELSE authenticate(auth, resp).fields.access_token]]
  /\ UNCHANGED <<pvars, gem, fmt, prs, boot>>

NextAuth ==
  \/ \E d \in Ticks : AuthTick(d)
  \/ \E resp \in AuthResponses(auth.calls + 1) : Authenticate(resp)
  \/ GetHeldToken
  \/ \E resp \in AuthResponses(auth.calls + 1) : GetNewToken(resp)

SpecAuth == Init /\ [][NextAuth]_vars

(* =============================== claims ================================ *)
Count(table, c) == Cardinality(RowsOf(table, c))

\* C1: every tracking row with gemini_analysed = 1 has status SUCCESS with a
\* non-null gcs_uri (columns no stage rewrites) and once had transcribed = 1.
C1_ClassifiedRowWasFetchedAndTranscribed ==
  \A i \in DOMAIN tracking :
    tracking[i].gemini_analysed = 1 =>
      /\ tracking[i].status = "SUCCESS"
      /\ tracking[i].gcs_uri # NULL
      /\ i \in hadTranscribed

\* C2: for every stage and contact id, committing the same successful outcome
\* a second time leaves both tables as the first commit left them.
ClassifyCommit(tables, c, model_name, transcript_text) ==
  [trk |-> UpdateGeminiAnalysed(tables.trk, c),
   cls |-> InsertClassification(tables.cls, c, OBJ, model_name, transcript_text)]

C2_CommitTwiceIsCommitOnce ==
  \A c \in source :
    LET row == FetchRow(c, "SUCCESS", Now(tracking))
        fetched == save_to_bq(tracking, row, TRUE)
        parsed == Parsed("ok_text")
        transcribed == update_bigquery_row(fetched, c, parsed, TRUE)
        classified == ClassifyCommit([trk |-> transcribed, cls |-> classifications],
                                     c, GEMINI_MODEL, TEXT)
    IN  /\ save_to_bq(fetched, row, TRUE) = fetched
        /\ update_bigquery_row(transcribed, c, parsed, TRUE) = transcribed
        /\ ClassifyCommit(classified, c, GEMINI_MODEL, TEXT) = classified

\* C3: whenever no process is between the INSERT and the UPDATE of
\* save_classification (so also after a kill or a failed UPDATE), a contact id
\* with a call_classifications row has gemini_analysed = 1 on its tracking
\* rows, and no contact id has two call_classifications rows.
MidCommit(c) ==
  \E p \in Procs : /\ run[p].stage = "classify"
                    /\ run[p].pc = "update"
                    /\ Head(run[p].pending).contactId = c

C3_ClassifyCommitAtomic ==
  \A c \in source :
    ~MidCommit(c) =>
      /\ Count(classifications, c) > 0 =>
            \A i \in RowsOf(tracking, c) : tracking[i].gemini_analysed = 1
      /\ Count(classifications, c) <= 1

\* C4: once two overlapping runs of one stage that both held a contact id have
\* ended, rows of that contact id that record the same outcome are one row:
\* no two tracking rows with the same status, no two call_classifications
\* rows with the same llm_model.
C4_OverlappingRunsConverge ==
  NoneRunning =>
    \A d \in dupSel :
      LET c == d[2] IN
      /\ \A i, j \in RowsOf(tracking, c) :
            tracking[i].status = tracking[j].status => i = j
      /\ \A k, l \in RowsOf(classifications, c) :
            classifications[k].llm_model = classifications[l].llm_model => k = l

\* C5: with one process at a time and every write going through, a selection
\* never returns a contact id whose stage was already committed as success,
\* and each table holds at most one row per contact id.
StageDone(stage, c) ==
  \E i \in RowsOf(tracking, c) :
    IF stage = "fetch" THEN tracking[i].status = "SUCCESS"
    ELSE IF stage = "transcribe" THEN tracking[i].transcribed = 1
    ELSE tracking[i].gemini_analysed = 1

C5_ResumeWithoutRepeatOrDuplicate ==
  /\ ev.kind = "select" =>
        \A c \in ContactIds(ev.pending) : ~StageDone(ev.stage, c)
  /\ \A c \in source : Count(tracking, c) <= 1 /\ Count(classifications, c) <= 1

\* C6: a contact id with a stored FAILED row is still returned by the fetch
\* stage's selection.
C6_FailedFetchStaysPending ==
  \A i \in DOMAIN tracking :
    tracking[i].status = "FAILED" =>
      tracking[i].contactId \in
        Range(get_pending_contacts(source, tracking, FETCH_LIMIT))

\* C7 as claimed: a fetch run never calls the recording source for a contact
\* id the source had answered 404 for before the run started.
C7_NoCallAfter404Answer ==
  (ev.kind = "fetch" /\ ev.called) => ~ev.after404

\* C7 as amended: a fetch run never calls the recording source for a contact
\* id that had a stored NOT_FOUND row when the run started.
C7_NoCallAfterNotFoundRow ==
  (ev.kind = "fetch" /\ ev.called) => ~ev.afterNotFound

C7_Witness ==
  /\ ev.kind = "select"
  /\ ev.stage = "fetch"
  /\ NotFoundIds(tracking) # {}
  /\ NotFoundIds(tracking) \cap ContactIds(ev.pending) = {}

\* what C8 says of the contact id c right after a failed transcribe attempt
LeftForTranscribe(c) ==
  /\ \A i \in RowsOf(tracking, c) : tracking[i].transcribed = 0
  /\ \E i \in RowsOf(tracking, c) :
       tracking[i].status = "SUCCESS" /\ tracking[i].gcs_uri # NULL
  /\ c \in ContactIds(get_pending_transcriptions(tracking, TRANSCRIBE_LIMIT))
  /\ c \notin ContactIds(get_pending_classifications(tracking, CLASSIFY_LIMIT))

AttemptFails(resp) ==
  resp.kind # "text" \/ ~JsonLoads(StripFences(Strip(resp.text))).ok

C9_PrimaryThenOneFallback ==
  LET n == Len(gem.calls) IN
  /\ n <= 2
  /\ gem.calls = SubSeq(<<GEMINI_MODEL, GEMINI_FALLBACK_MODEL>>, 1, n)
  /\ n = 0 => gem.out = "running"
  /\ n = 1 => /\ (gem.kinds[1] # "ok") <=> AttemptFails(gem.last)
              /\ (gem.out = "running") <=> AttemptFails(gem.last)
              /\ (gem.out = "returned") <=> ~AttemptFails(gem.last)
  /\ n = 2 => /\ gem.kinds[1] # "ok"
              /\ (gem.out = "raised") <=> AttemptFails(gem.last)
              /\ (gem.out = "returned") <=> ~AttemptFails(gem.last)
  /\ gem.out = "returned" =>
       /\ gem.model_name = gem.calls[n]
       /\ gem.classification = JsonLoads(StripFences(Strip(gem.last.text))).value

C9_Witness ==
  /\ gem.out = "returned"
  /\ gem.calls = <<GEMINI_MODEL, GEMINI_FALLBACK_MODEL>>
  /\ gem.kinds[1] = "json_error"

LastRow(table) == table[Len(table)]

\* C11: the row a classify pass inserts carries in llm_model the name of the
\* model whose response was the first to parse: the primary's when the
\* primary response parsed, the secondary's when only the secondary's did.
C11_RowNamesAcceptedModel ==
  /\ \A k \in DOMAIN classifications :
       classifications[k].llm_model \in {GEMINI_MODEL, GEMINI_FALLBACK_MODEL}
  /\ (ev.kind = "classify" /\ ev.outcome = "inserted") =>
       /\ LastRow(classifications).contactId = ev.cid
       /\ ev.accepted \in {1, 2}
       /\ ev.accepted = 1 => LastRow(classifications).llm_model = GEMINI_MODEL
       /\ ev.accepted = 2 => LastRow(classifications).llm_model = GEMINI_FALLBACK_MODEL

C11_Witness ==
  /\ ev.kind = "classify"
  /\ ev.outcome = "inserted"
  /\ ev.accepted = 2
  /\ LastRow(classifications).llm_model = GEMINI_FALLBACK_MODEL

\* C12: no failure met while processing one record, a failing write of the
\* failure outcome included, ends the run: no pass of a loop leaves main
\* with an exception.
C12_NoRecordFailureEndsTheRun ==
  ~(ev.kind = "transcribe" /\ ev.commit = "crash")

\* C13: the transcribe selection returns only rows with status SUCCESS, a
\* gcs_uri and transcribed # 1, the classify selection only rows with
\* transcribed = 1, a non-blank transcription and gemini_analysed # 1; so
\* every record a run still has to process belongs to a contact whose earlier
\* stage was committed as success.
SelectedForTranscribe(rec) ==
  \E i \in RowsOf(tracking, rec.contactId) :
    /\ tracking[i].status = "SUCCESS"
    /\ tracking[i].gcs_uri # NULL
    /\ tracking[i].gcs_uri = rec.payload
    /\ tracking[i].transcribed # 1

SelectedForClassify(rec) ==
  \E i \in RowsOf(tracking, rec.contactId) :
    /\ tracking[i].transcribed = 1
    /\ i \in hadTranscribed
    /\ tracking[i].transcription = rec.payload
    /\ rec.payload \notin {NULL, BLANK}
    /\ tracking[i].gemini_analysed # 1

C13_LaterStageAfterEarlierSuccess ==
  /\ (ev.kind = "select" /\ ev.stage = "transcribe") =>
       \A k \in DOMAIN ev.pending : SelectedForTranscribe(ev.pending[k])
  /\ (ev.kind = "select" /\ ev.stage = "classify") =>
       \A k \in DOMAIN ev.pending : SelectedForClassify(ev.pending[k])
  /\ \A p \in Procs : \A k \in DOMAIN run[p].pending :
       LET rec == run[p].pending[k] IN
       /\ run[p].stage = "transcribe" =>
            \E i \in RowsOf(tracking, rec.contactId) :
              tracking[i].status = "SUCCESS" /\ tracking[i].gcs_uri = rec.payload
       /\ run[p].stage = "classify" =>
            /\ rec.payload \notin {NULL, BLANK, ERRMSG}
            /\ RowsOf(tracking, rec.contactId) \cap hadTranscribed # {}

C13_Witness ==
  /\ ev.kind = "select"
  /\ ev.stage = "classify"
  /\ ev.pending # <<>>
  /\ \E i \in DOMAIN tracking : tracking[i].status = "FAILED"

\* C14: a step never takes a tracking row with transcribed = 1 back to another
\* value nor replaces its transcription, and never clears gemini_analysed = 1.
C14_StatusNeverMovesBackward ==
  [][\A i \in DOMAIN tracking :
       /\ tracking[i].transcribed = 1 =>
            /\ tracking'[i].transcribed = 1
            /\ tracking'[i].transcription = tracking[i].transcription
       /\ tracking[i].gemini_analysed = 1 => tracking'[i].gemini_analysed = 1]_vars

\* C17: a received response whose parse raised is committed as a failure:
\* the pass does not commit success and leaves no row of the contact with
\* transcribed = 1.
C17_MalformedResponseIsFailure ==
  (ev.kind = "transcribe" /\ ev.adapter_ok /\ ~ev.parse_ok) =>
    /\ ev.commit # "success"
    /\ \A i \in RowsOf(tracking, ev.cid) : tracking[i].transcribed # 1

\* C18: a classify pass inserts a row only for a JSON object that has the
\* expected keys (its sale_result column is then read from the object); any
\* other JSON value is a failed attempt.
C18_OnlyTaxonomyObjectCommitted ==
  (ev.kind = "classify" /\ ev.outcome = "inserted") =>
    LastRow(classifications).sale_result # NULL

\* sel is the first limit members of eligible in ascending order of arrival
OldestFirst(sel, eligible, arrival, limit) ==
  /\ Len(sel) = IF Cardinality(eligible) <= limit THEN Cardinality(eligible)
                ELSE limit
  /\ \A k \in DOMAIN sel :
       \E i \in eligible :
         /\ sel[k] = i
         /\ Cardinality({j \in eligible : arrival[j] < arrival[i]}) = k - 1

RowIds(trk, rows) ==
  [k \in DOMAIN rows |->
     CHOOSE i \in DOMAIN trk : trk[i].contactId = rows[k].contactId]

\* the two selections of tracking rows against the oldest-first order
TrackingSelectionsOldestFirst ==
  LET FetchTime == [i \in DOMAIN tracking |-> tracking[i].fetch_datetime]
  IN  /\ OldestFirst(RowIds(tracking, get_pending_transcriptions(tracking, TRANSCRIBE_LIMIT)),
                     PendingTranscriptionRows(tracking), FetchTime, TRANSCRIBE_LIMIT)
      /\ OldestFirst(RowIds(tracking, get_pending_classifications(tracking, CLASSIFY_LIMIT)),
                     PendingClassificationRows(tracking), FetchTime, CLASSIFY_LIMIT)

\* C15: each stage's selection is the eligible records oldest first (source
\* rows by startDate, tracking rows by fetch_datetime), cut to the first
\* limit records of that order.
C15_SelectionOldestFirst ==
  LET Started == [c \in source |-> StartDate(c)]
  IN  /\ OldestFirst(get_pending_contacts(source, tracking, FETCH_LIMIT),
                     {c \in source : RowsOf(tracking, c) = {}}, Started, FETCH_LIMIT)
      /\ TrackingSelectionsOldestFirst

\* C16: a run goes once through every record its selection returned: the
\* selection holds no contact id twice and the pass that ends a run leaves no
\* selected record behind.
C16_EverySelectedRecordAttemptedOnce ==
  /\ ev.kind = "select" =>
       \A k, l \in DOMAIN ev.pending :
         ev.pending[k].contactId = ev.pending[l].contactId => k = l
  /\ ev.kind \in {"fetch", "transcribe", "classify", "classify_update"} =>
       ev.skipped = 0

\* the maximal runs of consecutive same-channel words of a word sequence s,
\* each named by the position of its first word
RunStarts(s) == {k \in DOMAIN s : k = 1 \/ s[k].channel # s[k - 1].channel}

RunEnd(s, b) ==
  CHOOSE e \in b..Len(s) :
    /\ \A j \in b..e : s[j].channel = s[b].channel
    /\ e = Len(s) \/ s[e + 1].channel # s[b].channel

RunText(s, b) == JoinWords([j \in 1..(RunEnd(s, b) - b + 1) |-> s[b + j - 1].word])

\* lines are, in order, the lines line[b] of the runs in the set runs
LinesOfRuns(lines, runs, line) ==
  /\ Len(lines) = Cardinality(runs)
  /\ \A b \in runs : lines[Cardinality({a \in runs : a < b}) + 1] = line[b]

\* C19 as claimed: the output has one line per maximal run of the sorted
\* word sequence, in order, and its text is the run's words joined by spaces.
C19_OneLinePerRun ==
  fmt.pc = "done" =>
    LET s == fmt.all_words
        line == [b \in RunStarts(s) |->
                   [label |-> CHANNEL_LABELS(s[b].channel), text |-> RunText(s, b)]]
    IN  LinesOfRuns(fmt.lines, RunStarts(s), line)

\* C19 as amended: the output has one line per maximal run whose joined text
\* is not blank, in order, and its text is the joined text stripped.
C19_OneLinePerNonBlankRun ==
  fmt.pc = "done" =>
    LET s == fmt.all_words
        line == [b \in RunStarts(s) |->
                   [label |-> CHANNEL_LABELS(s[b].channel),
                    text |-> StripText(RunText(s, b))]]
    IN  LinesOfRuns(fmt.lines,
                    {b \in RunStarts(s) : StripText(RunText(s, b)) # <<>>}, line)

C19_Witness ==
  /\ fmt.pc = "done"
  /\ Len(fmt.lines) >= 2
  /\ Cardinality(RunStarts(fmt.all_words)) > Len(fmt.lines)
  /\ \E k \in DOMAIN fmt.lines : Len(fmt.lines[k].text) >= 3

\* C20: the sorted sequence holds the collected words in ascending start
\* time, and two words with the same start time are in their order of
\* collection: by channel index, then by position in the channel.
C20_SortIsStable ==
  fmt.pc \in {"group", "done"} =>
    LET s == fmt.all_words
        collected == CollectWords(fmt.channels, 0)
    IN  /\ Len(s) = Len(collected)
        /\ Range(s) = Range(collected)
        /\ \A k, l \in DOMAIN s :
             k < l =>
               /\ s[k].start <= s[l].start
               /\ s[k].start = s[l].start =>
                    \/ s[k].channel < s[l].channel
                    \/ s[k].channel = s[l].channel /\ s[k].end < s[l].end

C20_Witness ==
  /\ fmt.pc = "group"
  /\ \E k, l \in DOMAIN fmt.all_words :
       /\ k < l
       /\ fmt.all_words[k].start = fmt.all_words[l].start
       /\ fmt.all_words[k].channel = fmt.all_words[l].channel
  /\ \E k, l \in DOMAIN fmt.all_words :
       /\ k < l
       /\ fmt.all_words[k].start = fmt.all_words[l].start
       /\ fmt.all_words[k].channel < fmt.all_words[l].channel
  /\ \E k \in DOMAIN fmt.channels[0] : fmt.channels[0][k].start = 1


\* the status the row of a fetch attempt is to carry, by the class of the
\* recording source's answer
StatusOfAnswer(answer) ==
  IF answer = "not_found" THEN "NOT_FOUND"
  ELSE IF answer = "failure" THEN "FAILED"
  ELSE IF answer = "no_file" THEN "NO_RECORDING"
  ELSE "SUCCESS"

ExactlyOneRowWithStatus(c, status) ==
  /\ Count(tracking, c) = 1
  /\ \A i \in RowsOf(tracking, c) : tracking[i].status = status

C26_UriIffSuccess ==
  \A i \in DOMAIN tracking :
    (tracking[i].gcs_uri # NULL) <=> (tracking[i].status = "SUCCESS")

C26_Witness ==
  /\ \E i \in DOMAIN tracking :
       tracking[i].status = "SUCCESS" /\ tracking[i].gcs_uri # NULL
  /\ \E i \in DOMAIN tracking :
       tracking[i].status = "NO_RECORDING" /\ tracking[i].gcs_uri = NULL
  /\ \E i \in DOMAIN tracking : tracking[i].transcribed = 0

HoldsText(t) == t # NULL /\ t # BLANK

\* C27: a tracking row holds a transcript (non-empty transcription and
\* transcription_raw) exactly when its transcribed flag is 1, and a row with
\* transcribed 0 or NULL holds no transcription text.
C27_TranscriptIffTranscribed ==
  \A i \in DOMAIN tracking :
    /\ (HoldsText(tracking[i].transcription) /\ HoldsText(tracking[i].transcription_raw))
         <=> (tracking[i].transcribed = 1)
    /\ tracking[i].transcribed # 1 => ~HoldsText(tracking[i].transcription)

RunEnded ==
  /\ ev.kind \in {"fetch", "transcribe", "classify", "classify_update"}
  /\ ev.ended
  /\ ev.counts # NoSummary

\* C28: in the summary at the end of a run, processed = succeeded + failed
\* and succeeded is the number of records whose success outcome the ledger
\* took during the run.
C28_SummaryCountsAreExact ==
  RunEnded =>
    /\ ev.counts.processed = ev.counts.succeeded + ev.counts.failed
    /\ ev.counts.succeeded = ev.counts.written

\* a pass of a loop is over (a classify pass whose INSERT went through goes
\* on to its UPDATE)
PassEnded ==
  /\ ev.kind \in {"fetch", "transcribe", "classify", "classify_update"}
  /\ (ev.kind = "classify" => ev.outcome # "inserted")

\* C29: in a run of any stage, a pass that is followed by another pass of
\* the same run ends with the pacing delay.
C29_DelayBetweenAdapterCalls ==
  PassEnded => (ev.ended \/ ev.slept)

\* the label of a line by the channel index of its run
LabelOfIndex(k) ==
  IF k = 0 THEN <<AGENT>>
  ELSE IF k = 1 THEN <<CUSTOMER>>
  ELSE <<CHANNEL, SP, Digit(k + 1)>>

\* C24: in the multichannel output, the label of the line of each run is
\* 'Agent' for channel index 0, 'Customer' for index 1, and 'Channel k+1' for
\* an index k of 2 or more.
C24_LabelByChannelIndex ==
  fmt.pc = "done" =>
    LET s == fmt.all_words
        labels == [k \in DOMAIN fmt.lines |-> fmt.lines[k].label]
        label == [b \in RunStarts(s) |-> LabelOfIndex(s[b].channel)]
    IN  LinesOfRuns(labels,
                    {b \in RunStarts(s) : StripText(RunText(s, b)) # <<>>}, label)

C24_Witness ==
  /\ fmt.pc = "done"
  /\ \E k \in DOMAIN fmt.lines : fmt.lines[k].label = <<CHANNEL, SP, Digit(3)>>
  /\ \E k \in DOMAIN fmt.lines : fmt.lines[k].label = <<AGENT>>
  /\ \E k \in DOMAIN fmt.lines : fmt.lines[k].label = <<CUSTOMER>>

MonoWithUtterances ==
  /\ prs.pc = "done"
  /\ NumChannels(prs.response.channels) < 2
  /\ prs.response.utterances # <<>>

\* C21 as claimed: for a single-channel output with utterances, the labeled
\* transcript has one line per utterance with non-empty text, in order, and
\* the line of an utterance with speaker tag k is 'Speaker k+1: <text>'.
C21_OneLinePerNonEmptyUtterance ==
  MonoWithUtterances =>
    LET us == prs.response.utterances
        line == [k \in DOMAIN us |->
                   [label |-> <<SPEAKER, SP, Digit(us[k].speaker + 1)>>,
                    text |-> us[k].transcript]]
    IN  /\ LinesOfRuns(prs.lines, {k \in DOMAIN us : us[k].transcript # <<>>}, line)
        /\ prs.result.transcription = JoinLines(prs.lines)

\* C21 as amended: one line per utterance whose text is not blank, in order,
\* and the line is 'Speaker k+1: ' followed by the text stripped of leading
\* and trailing whitespace.
C21_OneLinePerNonBlankUtterance ==
  MonoWithUtterances =>
    LET us == prs.response.utterances
        line == [k \in DOMAIN us |->
                   [label |-> <<SPEAKER, SP, Digit(us[k].speaker + 1)>>,
                    text |-> StripText(us[k].transcript)]]
    IN  /\ LinesOfRuns(prs.lines,
                       {k \in DOMAIN us : StripText(us[k].transcript) # <<>>}, line)
        /\ prs.result.transcription = JoinLines(prs.lines)

C21_Witness ==
  /\ MonoWithUtterances
  /\ Len(prs.response.utterances) = 2
  /\ prs.response.utterances[1].transcript = <<SP>>
  /\ prs.response.utterances[2] = [speaker |-> 2, transcript |-> <<SP, UttLetter>>]
  /\ prs.result.transcription = <<SPEAKER, SP, Digit(3), COLON, SP, UttLetter>>

NoWordsNoUtterances ==
  /\ prs.pc = "done"
  /\ prs.response.utterances = <<>>
  /\ CollectWords(WordLists(prs.response.channels), 0) = <<>>

\* C22: when the utterance list is empty and no channel carries a word, the
\* labeled transcript equals the raw transcript, for any number of channels.
C22_FallsBackToRawTranscript ==
  NoWordsNoUtterances => prs.result.transcription = prs.result.transcription_raw

CarriesText(channel) ==
  /\ channel.alternatives # <<>>
  /\ \/ channel.alternatives[1].transcript # <<>>
     \/ \E k \in DOMAIN channel.alternatives[1].words :
          channel.alternatives[1].words[k].word # <<>>

\* C23: when any channel carries recognised text, and whenever the labeled
\* transcription is not empty, transcription_raw is not empty.
C23_RawTranscriptPopulated ==
  prs.pc = "done" =>
    /\ (\E ch \in DOMAIN prs.response.channels : CarriesText(prs.response.channels[ch]))
         => prs.result.transcription_raw # <<>>
    /\ prs.result.transcription # <<>> => prs.result.transcription_raw # <<>>

\* C30: a program started with a required setting or credential missing
\* never reaches its selection and makes no adapter call: it fails first.
C30_MissingSettingFailsBeforeSelection ==
  boot.missing # {} =>
    /\ ~boot.selected
    /\ boot.adapter_calls = 0
    /\ boot.pc \in {"import", "main", "authenticator", "failed"}
    /\ boot.pc \in {"main", "authenticator"} => boot.stage = "fetch"

C30_Witness ==
  /\ boot.stage = "fetch"
  /\ boot.missing = {"CXONE_CLIENT_SECRET"}
  /\ boot.pc = "failed"
  /\ boot.table_calls = 1

\* the text between the fences of a response text that is an opening fence
\* (tagged or not), some lines, and a closing fence
Unwrapped(t) == SubSeq(Strip(t), 2, Len(Strip(t)) - 1)

\* t is a JSON object wrapped in a fence
IsWrappedObject(t) ==
  /\ Len(Strip(t)) >= 3
  /\ StartsWithFence(Strip(t)[1])
  /\ Strip(t)[Len(Strip(t))] = FENCE
  /\ JsonLoads(Unwrapped(t)).ok
  /\ JsonLoads(Unwrapped(t)).value \in {OBJ, EMPTYOBJ}

\* C31: a pass whose response is a JSON object wrapped in a fence returns
\* the object the unwrapped text parses to, under the name of the model that
\* was called in that pass, and no further model is called.
C31_FencedObjectIsAccepted ==
  (gem.last.kind = "text" /\ gem.calls # <<>> /\ IsWrappedObject(gem.last.text)) =>
    /\ gem.out = "returned"
    /\ gem.kinds[Len(gem.kinds)] = "ok"
    /\ gem.classification = JsonLoads(Unwrapped(gem.last.text)).value
    /\ gem.model_name = gem.calls[Len(gem.calls)]

C31_Witness ==
  /\ gem.last = Text(<<FENCEJ, OBJ, FENCE>>)
  /\ gem.calls = <<GEMINI_MODEL>>
  /\ gem.out = "returned"
  /\ gem.classification = OBJ

IssuedExpiry(t) == IF t = None THEN None ELSE auth.issued[t]

\* C33: get_access_token invokes authenticate exactly when no token is held
\* or the clock is at or past the expiry of the held token, and a token it
\* returns was issued by an authenticate call whose expiry the clock had not
\* reached at the check.
C33_RefreshIffExpired ==
  (auth.op.kind = "get" /\ ~auth.direct) =>
    /\ auth.op.called <=>
         \/ auth.op.before.access_token = None
         \/ /\ IssuedExpiry(auth.op.before.access_token) # None
            /\ auth.now >= IssuedExpiry(auth.op.before.access_token)
    /\ (~auth.op.raised /\ auth.op.returned # None) =>
         /\ IssuedExpiry(auth.op.returned) # None
         /\ auth.now <= IssuedExpiry(auth.op.returned)

\* C36: a call of authenticate that raises leaves access_token,
\* refresh_token, id_token, token_type and token_expiry as they were.
C36_FailedAuthenticateKeepsFields ==
  (auth.op.kind \in {"get", "authenticate"} /\ auth.op.called /\ auth.op.raised) =>
    TokenFields(auth) = auth.op.before

\* the fields of a tracking row the fetch stage writes
FetchFields(row) ==
  [contactId |-> row.contactId, gcs_uri |-> row.gcs_uri,
   fetch_datetime |-> row.fetch_datetime, status |-> row.status]

\* the fields of a tracking row the transcribe stage writes
TranscribeFields(row) ==
  [transcribed |-> row.transcribed, analysed |-> row.analysed,
   transcription |-> row.transcription,
   transcription_raw |-> row.transcription_raw]

\* C35: a step keeps every stored tracking row, and a row it changes is a row
\* of the contactId a commit of that step is for: a transcribe commit leaves
\* status, gcs_uri, fetch_datetime and gemini_analysed of the row as they
\* were, and a classify commit changes gemini_analysed only.
C35_CommitFrame ==
  [][/\ DOMAIN tracking \subseteq DOMAIN tracking'
     /\ \A k \in DOMAIN tracking :
          tracking'[k] # tracking[k] =>
            /\ ev'.kind \in {"transcribe", "classify_update"}
            /\ tracking[k].contactId = ev'.cid
            /\ FetchFields(tracking'[k]) = FetchFields(tracking[k])
            /\ ev'.kind = "transcribe" =>
                 tracking'[k].gemini_analysed = tracking[k].gemini_analysed
            /\ ev'.kind = "classify_update" =>
                 TranscribeFields(tracking'[k]) = TranscribeFields(tracking[k])]_vars

\* a classify commit and a failed transcribe commit have each rewritten the
\* row of one contact while the other contact has a row
C35_Witness ==
  /\ ev.kind = "classify_update"
  /\ \E k \in DOMAIN tracking :
       tracking[k].contactId # ev.cid /\ tracking[k].gemini_analysed # 1
  /\ \E k \in DOMAIN tracking :
       tracking[k].contactId = ev.cid /\ tracking[k].gemini_analysed = 1
  /\ \E k \in DOMAIN tracking :
       tracking[k].transcribed = 0 /\ tracking[k].transcription = ERRMSG

\* C34: under repeated runs of the transcribe stage, every stored record of a
\* recording the recognition service accepts is eventually transcribed,
\* whatever older records fail in every run.
C34_EligibleRecordIsEventuallyProcessed ==
  \A k \in 1..BatchSize :
    (tracking[k].gcs_uri = GCS) ~> (tracking[k].transcribed = 1)
====
